---- MODULE Spec2Model ----
(***************************************************************************)
(* Qlip clipboard manager (src/qlip.py): the clipboard-history engine.     *)
(*                                                                         *)
(* A Python str is a sequence of one-character strings, so that            *)
(* str.startswith and the file-URL conversion are computed, not assumed.   *)
(* A payload (ClipboardItem.data) is a dynamically typed Python value:     *)
(* [py |-> "str", v |-> characters] or [py |-> "QPixmap", v |-> pixels].   *)
(* The widget, tray and dialog code is modelled only where it decides what *)
(* happens to self.items, ClipboardItem._counter, self.is_paused, the      *)
(* list widget's rows and ~/.qlip.json.                                    *)
(***************************************************************************)
EXTENDS Integers, Sequences, FiniteSets, TLC

\* Bounds of the model: no item is constructed once ClipboardItem._counter
\* has reached this value (the counter is unbounded in the program), in the
\* one-run specification and in the specification with restarts.
MaxCounter == 3

MaxCounterRestart == 2

\* The same bound in the specification of the classifier.
MaxCounterClassify == 3

\* The same bound in the specification of the menu and the dialog.
MaxCounterModal == 2

\* The clock stops at this second.
MaxNow == 1

\* No more exports than this are followed.
MaxExports == 2

\* Lines 314 and 349-357: a text longer than this is cut in its row and can
\* be saved to a file.
DisplayLimit == 180

VARIABLES
    items,        \* self.items: the list of ClipboardItem objects
    counter,      \* ClipboardItem._counter
    is_paused,    \* self.is_paused
    list_widget,  \* rows of self.list_widget: the index of the item each row refers to
    clipboard,    \* the QMimeData the system clipboard holds
    file,         \* ~/.qlip.json
    phase,        \* "starting" | "running" | "exited" | "crashed"
    last,         \* name of the handler that ran last
    snapshot,     \* history: self.items as it was when save_items_to_file last ran
    issued,       \* history: ids given to new items since the last reset (clear or load)
    prior,        \* history: ids given to items before the last load (since the last clear)
    modal,        \* the nested event loop that is open: none, a context menu, the confirmation
    now,          \* the clock, in ticks of half a second
    exports       \* the files save_item_to_file wrote, in the order of the writes

vars == <<items, counter, is_paused, list_widget, clipboard, file, phase, last,
          snapshot, issued, prior, modal, now, exports>>

\* What only the context menu, the confirmation dialog and the export change.
uiVars == <<modal, now, exports>>

----------------------------------------------------------------------------
\* Python values

Str(s) == [py |-> "str", v |-> s]

Pixmap(p) == [py |-> "QPixmap", v |-> p]

StartsWith(s, p) == Len(s) >= Len(p) /\ SubSeq(s, 1, Len(p)) = p

HttpPrefix == <<"h", "t", "t", "p", ":", "/", "/">>

HttpsPrefix == <<"h", "t", "t", "p", "s", ":", "/", "/">>

FilePrefix == <<"f", "i", "l", "e", ":", "/", "/">>

SlashPrefix == <<"/">>

\* Position of the first "/" of s, or Len(s) + 1 when there is none.
RECURSIVE FirstSlash(_, _)
FirstSlash(s, i) ==
    IF i > Len(s) THEN i
    ELSE IF s[i] = "/" THEN i ELSE FirstSlash(s, i + 1)

\* QUrl(text) for a text that starts with file:// : the authority runs up to
\* the next "/", the path is the rest.
QUrlFromText(text) ==
    LET rest == SubSeq(text, Len(FilePrefix) + 1, Len(text))
        cut  == FirstSlash(rest, 1)
    IN  [scheme |-> "file",
         host   |-> SubSeq(rest, 1, cut - 1),
         path   |-> SubSeq(rest, cut, Len(rest))]

isLocalFile(url) == url.scheme = "file"

\* QUrl.toLocalFile: empty for a non-file URL, //host/path for a URL with a
\* host, the path otherwise.
toLocalFile(url) ==
    IF ~isLocalFile(url) THEN <<>>
    ELSE IF url.host # <<>> THEN <<"/", "/">> \o url.host \o url.path
    ELSE url.path

----------------------------------------------------------------------------
\* ClipboardItem

\* ClipboardItem.__init__: the new item takes the counter as its index; the
\* caller advances the counter by one.
ClipboardItem(data_type, data, ctr) ==
    [data_type |-> data_type, data |-> data, favorite |-> FALSE, index |-> ctr]

to_dict_no_favorite(item) ==
    [data_type |-> item.data_type, data |-> item.data.v,
     favorite |-> FALSE, index |-> item.index]

to_dict(item) ==
    [data_type |-> item.data_type, data |-> item.data.v,
     favorite |-> item.favorite, index |-> item.index]

RecordKeys == {"data_type", "data", "favorite", "index"}

\* from_dict raises KeyError when a key is missing.
from_dict_raises(rec) == ~(RecordKeys \subseteq DOMAIN rec)

from_dict(rec) ==
    [data_type |-> rec.data_type, data |-> Str(rec.data),
     favorite |-> rec.favorite, index |-> rec.index]

----------------------------------------------------------------------------
\* reorder_items: list.sort(key = (not favorite, index)), a stable sort

KeyLess(a, b) ==
    \/ a.favorite /\ ~b.favorite
    \/ a.favorite = b.favorite /\ a.index < b.index

RECURSIVE InsertByKey(_, _)
InsertByKey(s, x) ==
    IF s = <<>> THEN <<x>>
    ELSE IF KeyLess(x, Head(s)) THEN <<x>> \o s
    ELSE <<Head(s)>> \o InsertByKey(Tail(s), x)

RECURSIVE SortByKey(_)
SortByKey(s) ==
    IF s = <<>> THEN <<>>
    ELSE InsertByKey(SortByKey(SubSeq(s, 1, Len(s) - 1)), s[Len(s)])

reorder_items_no_sort(its) == its

\* The sorted self.items; the rows of the list widget are rebuilt from it.
reorder_items(its) == SortByKey(its)

Rows(its) == [i \in 1..Len(its) |-> its[i].index]

add_item_to_list(its, item) == reorder_items(Append(its, item))

----------------------------------------------------------------------------
\* process_mime_data

\* A QMimeData: hasText()/text(), hasImage()/imageData(), urls() (hasUrls()
\* is urls() being non-empty).
MimeData(hasText, text, hasImage, image, urls) ==
    [hasText |-> hasText, text |-> text, hasImage |-> hasImage,
     image |-> image, urls |-> urls]

hasUrls(m) == m.urls # <<>>

ClassifyText_slash_as_text(text) ==
    IF StartsWith(text, HttpPrefix) \/ StartsWith(text, HttpsPrefix)
    THEN [data_type |-> "url", data |-> Str(text)]
    ELSE IF StartsWith(text, FilePrefix)
    THEN [data_type |-> "file", data |-> Str(toLocalFile(QUrlFromText(text)))]
    ELSE [data_type |-> "text", data |-> Str(text)]

\* Lines 219-232: the data type and the data of a non-empty text.
ClassifyText(text) ==
    IF StartsWith(text, HttpPrefix) \/ StartsWith(text, HttpsPrefix)
    THEN [data_type |-> "url", data |-> Str(text)]
    ELSE IF StartsWith(text, FilePrefix)
    THEN [data_type |-> "file", data |-> Str(toLocalFile(QUrlFromText(text)))]
    ELSE IF StartsWith(text, SlashPrefix)
    THEN [data_type |-> "file", data |-> Str(text)]
    ELSE [data_type |-> "text", data |-> Str(text)]

IsDuplicate_never(its, data) == FALSE

\* Lines 235 and 253: any(item.data == data for item in self.items).
IsDuplicate(its, data) ==
    \E i \in 1..Len(its) : its[i].data = data

IsDuplicateImage_never(its, pixmap) == FALSE

\* Line 242: an item that holds a QPixmap with the same image.
IsDuplicateImage(its, pixmap) ==
    \E i \in 1..Len(its) :
        its[i].data.py = "QPixmap" /\ its[i].data.v = pixmap.v

\* The store and the counter as a pair.
St(its, ctr) == [items |-> its, counter |-> ctr]

RECURSIVE ProcessUrls_keep_repeats(_, _)
ProcessUrls_keep_repeats(urls, st) ==
    IF urls = <<>> THEN st
    ELSE LET url       == Head(urls)
             file_path == toLocalFile(url)
             next      == IF isLocalFile(url) /\ file_path # <<>>
                          THEN St(add_item_to_list(st.items,
                                      ClipboardItem("file", Str(file_path), st.counter)),
                                  st.counter + 1)
                          ELSE st
         IN  ProcessUrls_keep_repeats(Tail(urls), next)

\* Lines 248-255: the loop over urls.
RECURSIVE ProcessUrls(_, _)
ProcessUrls(urls, st) ==
    IF urls = <<>> THEN st
    ELSE LET url       == Head(urls)
             file_path == toLocalFile(url)
             add       == /\ isLocalFile(url)
                          /\ file_path # <<>>
                          /\ ~IsDuplicate(st.items, Str(file_path))
             next      == IF add
                          THEN St(add_item_to_list(st.items,
                                      ClipboardItem("file", Str(file_path), st.counter)),
                                  st.counter + 1)
                          ELSE st
         IN  ProcessUrls(Tail(urls), next)

process_mime_data_image_first(m, st) ==
    IF m.hasImage
    THEN IF ~IsDuplicateImage(st.items, Pixmap(m.image))
         THEN St(add_item_to_list(st.items,
                     ClipboardItem("image", Pixmap(m.image), st.counter)),
                 st.counter + 1)
         ELSE st
    ELSE IF m.hasText
    THEN IF m.text # <<>>
         THEN LET c == ClassifyText(m.text)
              IN  IF ~IsDuplicate(st.items, c.data)
                  THEN St(add_item_to_list(st.items,
                              ClipboardItem(c.data_type, c.data, st.counter)),
                          st.counter + 1)
                  ELSE st
         ELSE st
    ELSE IF hasUrls(m)
    THEN ProcessUrls(m.urls, st)
    ELSE st

\* Lines 213-255: the text branch is tried first, then the image, then the urls.
process_mime_data(m, st) ==
    IF m.hasText
    THEN IF m.text # <<>>
         THEN LET c == ClassifyText(m.text)
              IN  IF ~IsDuplicate(st.items, c.data)
                  THEN St(add_item_to_list(st.items,
                              ClipboardItem(c.data_type, c.data, st.counter)),
                          st.counter + 1)
                  ELSE st
         ELSE st
    ELSE IF m.hasImage
    THEN IF ~IsDuplicateImage(st.items, Pixmap(m.image))
         THEN St(add_item_to_list(st.items,
                     ClipboardItem("image", Pixmap(m.image), st.counter)),
                 st.counter + 1)
         ELSE st
    ELSE IF hasUrls(m)
    THEN ProcessUrls(m.urls, st)
    ELSE st

----------------------------------------------------------------------------
\* ~/.qlip.json: whether it exists, whether json.load parses it, and the
\* list of records it holds.

JsonFile(data) == [exists |-> TRUE, parsable |-> TRUE, data |-> data]

AbsentFile == [exists |-> FALSE, parsable |-> FALSE, data |-> <<>>]

UnparsableFile == [exists |-> TRUE, parsable |-> FALSE, data |-> <<>>]

\* A record without its "index" key.
RecordWithoutIndex == [data_type |-> "text", data |-> <<"a">>, favorite |-> FALSE]

WellFormedRecord == [data_type |-> "text", data |-> <<"b">>, favorite |-> FALSE, index |-> 0]

NotImage(item) == item.data_type # "image"

RECURSIVE MapToDict(_)
MapToDict(its) ==
    IF its = <<>> THEN <<>> ELSE <<to_dict(Head(its))>> \o MapToDict(Tail(its))

save_items_to_file_with_images(its) ==
    JsonFile(MapToDict(its))

\* save_items_to_file: the records of the items that are not images.
save_items_to_file(its) ==
    JsonFile(MapToDict(SelectSeq(its, NotImage)))

MaxIndex(its) ==
    CHOOSE n \in {its[i].index : i \in 1..Len(its)} :
        \A i \in 1..Len(its) : its[i].index <= n

CounterAfterLoad_len(its) == Len(its)

CounterAfterLoad_max(its) == IF its # <<>> THEN MaxIndex(its) ELSE 0

\* Lines 445-448.
CounterAfterLoad(its) == IF its # <<>> THEN MaxIndex(its) + 1 ELSE 0

\* Lines 441-443: from_dict constructs an item (which advances the counter)
\* and then overwrites its index; a record that lacks a key raises KeyError
\* and ends the loop.
RECURSIVE LoadRecords(_, _)
LoadRecords(data, acc) ==
    IF data = <<>> THEN acc
    ELSE IF from_dict_raises(Head(data))
    THEN [acc EXCEPT !.raised = TRUE]
    ELSE LoadRecords(Tail(data),
             [items   |-> Append(acc.items, from_dict(Head(data))),
              counter |-> acc.counter + 1,
              raised  |-> FALSE])

\* load_items_from_file, from the store st of a fresh process: the store
\* after it, and whether an exception left it.
load_items_from_file(f, st) ==
    IF ~f.exists
    THEN [items |-> st.items, counter |-> st.counter, raised |-> FALSE]
    ELSE IF ~f.parsable
    THEN [items |-> st.items, counter |-> st.counter, raised |-> TRUE]
    ELSE LET r == LoadRecords(f.data,
                      [items |-> <<>>, counter |-> st.counter, raised |-> FALSE])
         IN  IF r.raised THEN r
             ELSE [items   |-> reorder_items(r.items),
                   counter |-> CounterAfterLoad(r.items),
                   raised  |-> FALSE]

----------------------------------------------------------------------------
\* Clipboard contents and dropped contents

TextA == <<"a">>

TextPath == <<"/", "f">>

TextFileUrl == <<"f", "i", "l", "e", ":", "/", "/", "/", "f">>

Image1 == <<"px1">>

NoImage == <<>>

UrlLocalF == [scheme |-> "file", host |-> <<>>, path |-> <<"/", "f">>]

UrlLocalG == [scheme |-> "file", host |-> <<>>, path |-> <<"/", "g">>]

UrlRemote == [scheme |-> "http", host |-> <<"a">>, path |-> <<"/", "g">>]

EmptyMime == MimeData(FALSE, <<>>, FALSE, NoImage, <<>>)

MimeTextA == MimeData(TRUE, TextA, FALSE, NoImage, <<>>)

MimeImage == MimeData(FALSE, <<>>, TRUE, Image1, <<>>)

MimeTextPath == MimeData(TRUE, TextPath, FALSE, NoImage, <<>>)

\* What the clipboard or a drag can hold in the one-run specification.
Mimes ==
    { MimeTextA,
      MimeTextPath,
      MimeData(TRUE, TextFileUrl, FALSE, NoImage, <<>>),
      MimeData(TRUE, <<>>, TRUE, Image1, <<>>),
      MimeImage,
      MimeData(FALSE, <<>>, FALSE, NoImage, <<UrlLocalG, UrlRemote, UrlLocalF, UrlLocalG>>) }

\* What they can hold in the specification with restarts.
RestartMimes == {MimeTextA, MimeTextPath, MimeImage}

TextHttp == <<"h", "t", "t", "p", ":", "/", "/", "a">>

TextHttps == <<"h", "t", "t", "p", "s", ":", "/", "/", "a">>

\* A file URI with a host, and one with neither a host nor a path.
TextFileHost == <<"f", "i", "l", "e", ":", "/", "/", "h", "/", "f">>

TextFileBare == <<"f", "i", "l", "e", ":", "/", "/">>

MimeText(text) == MimeData(TRUE, text, FALSE, NoImage, <<>>)

\* Two texts of DisplayLimit + 1 characters.
LongTextX == [i \in 1..(DisplayLimit + 1) |-> "x"]

LongTextY == [i \in 1..(DisplayLimit + 1) |-> "y"]

\* What the clipboard can hold in the specification of the menu and the dialog.
ModalMimes == {MimeTextA, MimeText(LongTextX), MimeText(LongTextY)}

MimeUrlList ==
    MimeData(FALSE, <<>>, FALSE, NoImage, <<UrlLocalG, UrlRemote, UrlLocalF, UrlLocalG>>)

\* What the clipboard can hold in the specification of the classifier: every
\* kind of text, an image with and without a text beside it, a list of urls.
ClassifyMimes ==
    { MimeTextA,
      MimeTextPath,
      MimeText(TextFileUrl),
      MimeText(TextFileHost),
      MimeText(TextFileBare),
      MimeText(TextHttp),
      MimeText(TextHttps),
      MimeData(TRUE, TextA, TRUE, Image1, <<>>),
      MimeData(TRUE, <<>>, TRUE, Image1, <<>>),
      MimeImage,
      MimeUrlList }

\* Files a previous run of the program can have written.
SavedOne ==
    JsonFile(<<[data_type |-> "text", data |-> TextA, favorite |-> FALSE, index |-> 1]>>)

SavedTwo ==
    JsonFile(<<[data_type |-> "file", data |-> TextPath, favorite |-> TRUE, index |-> 2],
               [data_type |-> "text", data |-> TextA, favorite |-> FALSE, index |-> 0]>>)

\* A file whose second record is malformed.
MalformedFile == JsonFile(<<WellFormedRecord, RecordWithoutIndex>>)

InitialFiles ==
    {AbsentFile, UnparsableFile, MalformedFile, SavedOne, SavedTwo}

----------------------------------------------------------------------------
\* No menu and no dialog is open.
NoModal == [kind |-> "none"]

\* The state of a new process just before line 118, with ~/.qlip.json one of files.
Constructed(files) ==
    /\ items = <<>>
    /\ counter = 0
    /\ is_paused = FALSE
    /\ list_widget = <<>>
    /\ clipboard = EmptyMime
    /\ file \in files
    /\ phase = "starting"
    /\ last = "init"
    /\ snapshot = <<>>
    /\ issued = {}
    /\ prior = {}
    /\ modal = NoModal
    /\ now = 0
    /\ exports = <<>>

Init == Constructed(InitialFiles)

InitRestart == Constructed({AbsentFile})

\* __init__, line 118: load_items_from_file; an exception ends the process.
LoadItemsFromFile ==
    /\ phase = "starting"
    /\ LET r == load_items_from_file(file, St(items, counter))
       IN  /\ items' = r.items
           /\ counter' = r.counter
           /\ list_widget' = IF r.raised \/ ~file.exists THEN list_widget ELSE Rows(r.items)
           /\ phase' = IF r.raised THEN "crashed" ELSE "running"
    /\ last' = "load"
    /\ issued' = {}
    /\ UNCHANGED <<is_paused, clipboard, file, snapshot, prior, uiVars>>

\* The store after the handler, the ids it gave out added to the history.
Ingested(r, cap) ==
    /\ r.counter <= cap
    /\ items' = r.items
    /\ counter' = r.counter
    /\ list_widget' = IF r.items = items THEN list_widget ELSE Rows(r.items)
    /\ issued' = issued \cup (counter .. r.counter - 1)

on_clipboard_change_ungated(m, cap) ==
    Ingested(process_mime_data(m, St(items, counter)), cap)

\* on_clipboard_change with the clipboard holding m.
on_clipboard_change(m, cap) ==
    IF is_paused
    THEN UNCHANGED <<items, counter, list_widget, issued>>
    ELSE Ingested(process_mime_data(m, St(items, counter)), cap)

\* The clipboard changes to m and dataChanged calls on_clipboard_change.
OnClipboardChange(M, cap) ==
    \E m \in M :
        /\ phase = "running"
        /\ clipboard' = m
        /\ on_clipboard_change(m, cap)
        /\ last' = "on_clipboard_change"
        /\ UNCHANGED <<is_paused, file, phase, snapshot, prior, uiVars>>

\* dragEnterEvent accepts a drag that has text or urls; dropEvent processes it.
DropEvent(M, cap) ==
    \E m \in M :
        /\ phase = "running"
        /\ m.hasText \/ hasUrls(m)
        /\ Ingested(process_mime_data(m, St(items, counter)), cap)
        /\ last' = "dropEvent"
        /\ UNCHANGED <<is_paused, clipboard, file, phase, snapshot, prior, uiVars>>

toggle_pause_set ==
    /\ phase = "running"
    /\ is_paused' = TRUE
    /\ last' = "toggle_pause"
    /\ UNCHANGED <<items, counter, list_widget, clipboard, file, phase, snapshot,
                   issued, prior, uiVars>>

\* toggle_pause: the pause button.
toggle_pause ==
    /\ phase = "running"
    /\ is_paused' = ~is_paused
    /\ last' = "toggle_pause"
    /\ UNCHANGED <<items, counter, list_widget, clipboard, file, phase, snapshot,
                   issued, prior, uiVars>>

delete_all_items_keep_counter(reply) ==
    IF reply = "Yes"
    THEN /\ items' = <<>>
         /\ list_widget' = <<>>
         /\ counter' = counter
         /\ issued' = issued
         /\ prior' = prior
    ELSE UNCHANGED <<items, list_widget, counter, issued, prior>>

\* delete_all_items with the answer given to the confirmation dialog.
delete_all_items(reply) ==
    IF reply = "Yes"
    THEN /\ items' = <<>>
         /\ list_widget' = <<>>
         /\ counter' = 0
         /\ issued' = {}
         /\ prior' = {}
    ELSE UNCHANGED <<items, list_widget, counter, issued, prior>>

DeleteAllItems ==
    \E reply \in {"Yes", "No"} :
        /\ phase = "running"
        /\ delete_all_items(reply)
        /\ last' = IF reply = "Yes" THEN "delete_all_items" ELSE "delete_all_items_no"
        /\ UNCHANGED <<is_paused, clipboard, file, phase, snapshot, uiVars>>

\* Position in its of the item a row refers to.
ItemAt(its, ref) == CHOOSE i \in 1..Len(its) : its[i].index = ref

RemoveAt(s, i) == SubSeq(s, 1, i - 1) \o SubSeq(s, i + 1, Len(s))

delete_item_recount(row) ==
    /\ items' = RemoveAt(items, ItemAt(items, list_widget[row]))
    /\ list_widget' = RemoveAt(list_widget, row)
    /\ counter' = Len(items) - 1

\* delete_item on the row chosen in the context menu: the item leaves
\* self.items and the row leaves the list widget; nothing is sorted.
delete_item(row) ==
    /\ items' = RemoveAt(items, ItemAt(items, list_widget[row]))
    /\ list_widget' = RemoveAt(list_widget, row)
    /\ UNCHANGED counter

DeleteItem ==
    \E row \in 1..Len(list_widget) :
        /\ phase = "running"
        /\ delete_item(row)
        /\ last' = "delete_item"
        /\ UNCHANGED <<is_paused, clipboard, file, phase, snapshot, issued, prior, uiVars>>

\* toggle_favorite_item on the row chosen in the context menu.
toggle_favorite_item(row) ==
    LET i == ItemAt(items, list_widget[row])
        flipped == [items EXCEPT ![i].favorite = ~items[i].favorite]
    IN  /\ items' = reorder_items(flipped)
        /\ list_widget' = Rows(reorder_items(flipped))

ToggleFavoriteItem ==
    \E row \in 1..Len(list_widget) :
        /\ phase = "running"
        /\ toggle_favorite_item(row)
        /\ last' = "toggle_favorite_item"
        /\ UNCHANGED <<counter, is_paused, clipboard, file, phase, snapshot, issued, prior, uiVars>>

ActivationMime_row_text(item) ==
    IF item.data_type = "image"
    THEN MimeText(<<"I", "m", "a", "g", "e">>)
    ELSE MimeText(item.data.v)

\* What on_item_clicked puts on the clipboard: setText(data) for a text, a url
\* or a file, setPixmap(data) for an image.
ActivationMime(item) ==
    IF item.data_type \in {"text", "url", "file"}
    THEN MimeText(item.data.v)
    ELSE MimeData(FALSE, <<>>, TRUE, item.data.v, <<>>)

\* on_item_clicked on a row: the payload of its item goes to the clipboard,
\* and dataChanged calls on_clipboard_change with it.
OnItemClicked(cap) ==
    \E row \in 1..Len(list_widget) :
        LET m == ActivationMime(items[ItemAt(items, list_widget[row])])
        IN  /\ phase = "running"
            /\ clipboard' = m
            /\ on_clipboard_change(m, cap)
            /\ last' = "on_item_clicked"
            /\ UNCHANGED <<is_paused, file, phase, snapshot, prior, uiVars>>

\* Lines 291-319: the context menu opens on a row and its event loop starts.
\* The lambdas keep the QListWidgetItem of the row and its ClipboardItem;
\* "Save to File" is offered for a text, url or file longer than DisplayLimit.
show_item_context_menu(row) ==
    LET clipboard_item == items[ItemAt(items, list_widget[row])]
    IN  modal' = [kind  |-> "menu",
                  ref   |-> clipboard_item.index,
                  alive |-> TRUE,
                  save  |-> /\ clipboard_item.data_type \in {"text", "url", "file"}
                            /\ Len(clipboard_item.data.v) > DisplayLimit]

ShowItemContextMenu ==
    \E row \in 1..Len(list_widget) :
        /\ phase = "running"
        /\ modal = NoModal
        /\ show_item_context_menu(row)
        /\ last' = "show_item_context_menu"
        /\ UNCHANGED <<items, counter, is_paused, list_widget, clipboard, file, phase,
                       snapshot, issued, prior, now, exports>>

\* Lines 193-199: QMessageBox.question opens and its event loop starts.
AskDeleteAll ==
    /\ phase = "running"
    /\ modal = NoModal
    /\ modal' = [kind |-> "confirm"]
    /\ last' = "delete_all_items_asked"
    /\ UNCHANGED <<items, counter, is_paused, list_widget, clipboard, file, phase,
                   snapshot, issued, prior, now, exports>>

\* Lines 200-204: the dialog returns the answer.
ReplyDeleteAll ==
    \E reply \in {"Yes", "No"} :
        /\ phase = "running"
        /\ modal.kind = "confirm"
        /\ delete_all_items(reply)
        /\ modal' = NoModal
        /\ last' = IF reply = "Yes" THEN "delete_all_items" ELSE "delete_all_items_no"
        /\ UNCHANGED <<is_paused, clipboard, file, phase, snapshot, now, exports>>

\* The clipboard changes to m while the event loop of the menu or of the
\* dialog runs: dataChanged calls on_clipboard_change from that loop. When an
\* item is added, reorder_items (line 341) clears the list widget, which
\* deletes the QListWidgetItem the lambdas of the menu keep.
NestedClipboardChange(M, cap) ==
    \E m \in M :
        /\ phase = "running"
        /\ modal # NoModal
        /\ clipboard' = m
        /\ on_clipboard_change(m, cap)
        /\ modal' = IF modal.kind = "menu" /\ items' # items
                    THEN [modal EXCEPT !.alive = FALSE]
                    ELSE modal
        /\ last' = "on_clipboard_change"
        /\ UNCHANGED <<is_paused, file, phase, snapshot, prior, now, exports>>

\* The row that shows the item with this id.
RowOf(ref) == CHOOSE row \in 1..Len(list_widget) : list_widget[row] = ref

\* "Delete" is chosen in the menu: delete_item(list_item). Line 322 raises
\* RuntimeError when the QListWidgetItem was deleted; nothing catches it.
MenuDelete ==
    /\ phase = "running"
    /\ modal.kind = "menu"
    /\ IF modal.alive
       THEN /\ delete_item(RowOf(modal.ref))
            /\ last' = "delete_item"
       ELSE /\ UNCHANGED <<items, list_widget, counter>>
            /\ last' = "delete_item: RuntimeError"
    /\ modal' = NoModal
    /\ UNCHANGED <<is_paused, clipboard, file, phase, snapshot, issued, prior, now, exports>>

\* "Favorite" or "Unfavorite" is chosen: toggle_favorite_item(list_item).
\* Line 328 raises RuntimeError when the QListWidgetItem was deleted.
MenuFavorite ==
    /\ phase = "running"
    /\ modal.kind = "menu"
    /\ IF modal.alive
       THEN /\ toggle_favorite_item(RowOf(modal.ref))
            /\ last' = "toggle_favorite_item"
       ELSE /\ UNCHANGED <<items, list_widget>>
            /\ last' = "toggle_favorite_item: RuntimeError"
    /\ modal' = NoModal
    /\ UNCHANGED <<counter, is_paused, clipboard, file, phase, snapshot, issued, prior,
                   now, exports>>

\* Lines 376-377: the file name holds the local time to the second.
ExportPath(t) == <<"qlip_save_", t, ".txt">>

\* Lines 374-380: the payload is written to the file of that name, which
\* open(filename, 'w') creates or truncates.
save_item_to_file(clipboard_item) ==
    exports' = Append(exports, [path |-> ExportPath(now), data |-> clipboard_item.data.v])

\* "Save to File" is chosen in the menu.
MenuSave ==
    /\ phase = "running"
    /\ modal.kind = "menu"
    /\ modal.save
    /\ Len(exports) < MaxExports
    /\ save_item_to_file(items[ItemAt(items, modal.ref)])
    /\ modal' = NoModal
    /\ last' = "save_item_to_file"
    /\ UNCHANGED <<items, counter, is_paused, list_widget, clipboard, file, phase,
                   snapshot, issued, prior, now>>

\* The menu is closed without a choice.
MenuDismiss ==
    /\ phase = "running"
    /\ modal.kind = "menu"
    /\ modal' = NoModal
    /\ last' = "menu_dismissed"
    /\ UNCHANGED <<items, counter, is_paused, list_widget, clipboard, file, phase,
                   snapshot, issued, prior, now, exports>>

\* A second passes.
Tick ==
    /\ now < MaxNow
    /\ now' = now + 1
    /\ UNCHANGED <<items, counter, is_paused, list_widget, clipboard, file, phase, last,
                   snapshot, issued, prior, modal, exports>>

\* aboutToQuit calls cleanup, which saves; the process ends.
Cleanup ==
    /\ phase = "running"
    /\ file' = save_items_to_file(items)
    /\ snapshot' = items
    /\ prior' = prior \cup issued
    /\ phase' = "exited"
    /\ last' = "cleanup"
    /\ UNCHANGED <<items, counter, is_paused, list_widget, clipboard, issued, uiVars>>

\* A new process: the class attribute and the fields as lines 17, 56, 57 set them.
Launch ==
    /\ phase \in {"exited", "crashed"}
    /\ items' = <<>>
    /\ counter' = 0
    /\ is_paused' = FALSE
    /\ list_widget' = <<>>
    /\ phase' = "starting"
    /\ last' = "init"
    /\ issued' = {}
    /\ UNCHANGED <<clipboard, file, snapshot, prior, uiVars>>

\* One run of the program.
Next ==
    \/ LoadItemsFromFile
    \/ OnClipboardChange(Mimes, MaxCounter)
    \/ DropEvent(Mimes, MaxCounter)
    \/ toggle_pause
    \/ DeleteAllItems
    \/ DeleteItem
    \/ ToggleFavoriteItem
    \/ Cleanup

Spec == Init /\ [][Next]_vars

\* Runs that end with a save, each followed by a new process.
NextRestart ==
    \/ LoadItemsFromFile
    \/ OnClipboardChange(RestartMimes, MaxCounterRestart)
    \/ DeleteAllItems
    \/ DeleteItem
    \/ ToggleFavoriteItem
    \/ Cleanup
    \/ Launch

SpecRestart == InitRestart /\ [][NextRestart]_vars

\* One run in which the clipboard takes every kind of content and items are
\* activated.
NextClassify ==
    \/ LoadItemsFromFile
    \/ OnClipboardChange(ClassifyMimes, MaxCounterClassify)
    \/ OnItemClicked(MaxCounterClassify)
    \/ toggle_pause
    \/ DeleteAllItems

SpecClassify == InitRestart /\ [][NextClassify]_vars

\* One run with the context menu and the confirmation dialog as the nested
\* event loops they are, and with the exports.
NextModal ==
    \/ LoadItemsFromFile
    \/ (modal = NoModal /\ OnClipboardChange(ModalMimes, MaxCounterModal))
    \/ NestedClipboardChange(ModalMimes, MaxCounterModal)
    \/ ShowItemContextMenu
    \/ MenuDelete
    \/ MenuFavorite
    \/ MenuSave
    \/ MenuDismiss
    \/ AskDeleteAll
    \/ ReplyDeleteAll
    \/ Tick

SpecModal == InitRestart /\ [][NextModal]_vars

----------------------------------------------------------------------------
\* Properties

Ids(its) == {its[i].index : i \in 1..Len(its)}

Range(s) == {s[i] : i \in 1..Len(s)}

IngestOps == {"on_clipboard_change", "dropEvent"}

\* The items of its2 that are no item of its1 under another favorite flag.
NewItems(its1, its2) ==
    {x \in Range(its2) :
        ~\E y \in Range(its1) : y.index = x.index /\ y.data = x.data}

\* C1. Dedup: whatever was ingested, favorited, deleted, cleared or loaded,
\* no two items of the store have equal payloads; only the payload is
\* compared, whatever the two data types are.
C1_Dedup ==
    \A i, j \in 1..Len(items) : i # j => items[i].data # items[j].data

\* The file URL of /f was put on the clipboard while /f (id 0) and a later
\* item (id 1) were in the store, and nothing was added.
C1_Witness ==
    /\ last = "on_clipboard_change"
    /\ ~is_paused
    /\ clipboard.hasText /\ clipboard.text = TextFileUrl
    /\ counter = 2
    /\ \E i, j \in 1..Len(items) :
          /\ items[i].data = Str(TextPath) /\ items[i].index = 0
          /\ items[j].index = 1

\* C2. Order: while the program runs and when it has ended, every favorite
\* item precedes every other item and the ids increase strictly within the
\* favorites and within the others, also right after delete_item.
C2_Order ==
    phase \in {"running", "exited"} =>
        \A i, j \in 1..Len(items) :
            i < j =>
                /\ items[i].favorite \/ ~items[j].favorite
                /\ items[i].favorite = items[j].favorite => items[i].index < items[j].index

\* delete_item has just left a favorite with the higher id before a
\* non-favorite with the lower id.
C2_Witness ==
    /\ last = "delete_item"
    /\ Len(items) = 2
    /\ items[1].favorite /\ ~items[2].favorite
    /\ items[1].index > items[2].index

\* C3. Pause gating: a clipboard change that arrives while is_paused holds
\* changes neither the items, nor the rows, nor the counter.
C3_PauseGating ==
    [][(is_paused /\ last' = "on_clipboard_change")
          => UNCHANGED <<items, list_widget, counter>>]_vars

\* Paused, the clipboard took a text that no item holds, with room for it.
C3_Witness ==
    /\ is_paused
    /\ last = "on_clipboard_change"
    /\ clipboard = MimeTextA
    /\ counter < MaxCounter
    /\ \A i \in 1..Len(items) : items[i].data # Str(TextA)

NoImages(its) == \A i \in 1..Len(its) : its[i].data_type # "image"

\* C4. Round trip: when a store without image items was saved, the store
\* after the next load is the same sequence of the same items.
C4_RoundTrip ==
    (last = "load" /\ phase = "running" /\ file.exists /\ NoImages(snapshot))
        => items = snapshot

\* A store of two items, a favorite with the higher id first, was saved and
\* loaded.
C4_Witness ==
    /\ last = "load" /\ phase = "running" /\ file.exists
    /\ NoImages(snapshot)
    /\ Len(snapshot) = 2
    /\ snapshot[1].favorite /\ ~snapshot[2].favorite
    /\ snapshot[1].index > snapshot[2].index
    /\ items = snapshot

\* C5. Image exclusion: the saved file holds exactly one record for each
\* item that is not an image and none for an image; after the next load the
\* store holds no image item and every other saved item.
C5_ImageExclusion ==
    /\ phase = "exited" =>
          /\ \A k \in 1..Len(file.data) : file.data[k].data_type # "image"
          /\ \A i \in 1..Len(snapshot) :
                snapshot[i].data_type # "image" =>
                    Cardinality({k \in 1..Len(file.data) :
                                    /\ file.data[k].index = snapshot[i].index
                                    /\ file.data[k].data = snapshot[i].data.v
                                    /\ file.data[k].data_type = snapshot[i].data_type
                                    /\ file.data[k].favorite = snapshot[i].favorite}) = 1
          /\ Len(file.data) = Cardinality({i \in 1..Len(snapshot) :
                                              snapshot[i].data_type # "image"})
    /\ (last = "load" /\ phase = "running" /\ file.exists) =>
          /\ NoImages(items)
          /\ \A i \in 1..Len(snapshot) :
                snapshot[i].data_type # "image" => snapshot[i] \in Range(items)

\* A store with an image item and a text item was saved and loaded.
C5_Witness ==
    /\ last = "load" /\ phase = "running" /\ file.exists
    /\ \E i, j \in 1..Len(snapshot) :
          snapshot[i].data_type = "image" /\ snapshot[j].data_type = "text"
    /\ Len(items) = 1

RecordIds(f) == {f.data[k].index : k \in 1..Len(f.data)}

ExpectedNextId(f) ==
    IF f.data = <<>> THEN 0
    ELSE (CHOOSE n \in RecordIds(f) : \A m \in RecordIds(f) : m <= n) + 1

\* C6. Id recovery: after a load the counter is the greatest id of the
\* records plus one, or 0 for no records, and the first item ingested after
\* the load takes that id.
C6_IdRecovery ==
    /\ [](last = "load" /\ phase = "running" /\ file.exists
             => counter = ExpectedNextId(file))
    /\ [][(last = "load" /\ phase = "running" /\ file.exists /\ items' # items
              /\ last' \in IngestOps)
             => \E x \in NewItems(items, items') : x.index = ExpectedNextId(file)]_vars

\* The file held the single id 1, and the one item ingested since the load
\* has id 2.
C6_Witness ==
    /\ phase = "running"
    /\ RecordIds(file) = {1}
    /\ last \in IngestOps
    /\ issued = {2}
    /\ \E i \in 1..Len(items) : items[i].index = 2

\* C7. Reset on clear: a confirmed delete_all_items leaves no item and the
\* counter at 0; the event ingested next numbers its items from 0, and what
\* it adds is all the store holds (one item, but for a list of urls).
C7_ResetOnClear ==
    /\ [](last = "delete_all_items"
             => items = <<>> /\ list_widget = <<>> /\ counter = 0)
    /\ [][(last = "delete_all_items" /\ items' # items)
             => /\ Ids(items') = 0 .. (Len(items') - 1)
                /\ counter' = Len(items')
                /\ \E i \in 1..Len(items') : items'[i].index = 0
                /\ Len(items') > 1 =>
                      \A i \in 1..Len(items') : items'[i].data_type = "file"]_vars

\* The loaded file gave /f the id 2; the store now holds /f alone with id 0.
C7_Witness ==
    /\ file = SavedTwo
    /\ phase = "running"
    /\ last \in IngestOps
    /\ Len(items) = 1
    /\ items[1].index = 0 /\ items[1].data = Str(TextPath)
    /\ counter = 1

\* C8. Id monotonicity: an ingested item takes an id greater than every id
\* given out since the last reset and than every id in the store, two items
\* of one event take different ids, and delete_item leaves the counter.
C8_IdMonotonic ==
    [][/\ last' \in IngestOps =>
            \A x \in NewItems(items, items') :
                /\ \A k \in issued \cup Ids(items) : x.index > k
                /\ \A y \in NewItems(items, items') : y # x => y.index # x.index
       /\ last' = "delete_item" => counter' = counter /\ issued' = issued]_vars

\* Ids 0, 1, 2 were given out, the item with id 1 is gone, and the text on
\* the clipboard is the item with id 2.
C8_Witness ==
    /\ last = "on_clipboard_change"
    /\ issued = {0, 1, 2}
    /\ Ids(items) = {0, 2}
    /\ clipboard = MimeTextA
    /\ \E i \in 1..Len(items) : items[i].data = Str(TextA) /\ items[i].index = 2

\* C9 as claimed. Id uniqueness over the lifetime: an ingested item never
\* takes an id that an item had before the last load.
C9_UniqueOverLifetime ==
    [][last' \in IngestOps =>
          \A x \in NewItems(items, items') : x.index \notin prior]_vars

\* C9 as amended. The ids of the items in the store are pairwise different
\* and below the counter, across saves and loads; an ingested item takes an
\* id that no item of the store has.
C9_UniqueInStore ==
    phase \in {"running", "exited"} =>
        /\ \A i, j \in 1..Len(items) : i # j => items[i].index # items[j].index
        /\ \A i \in 1..Len(items) : items[i].index < counter

\* After a load, an ingested item has an id that an earlier item had, next
\* to a loaded item.
C9_Witness ==
    /\ phase = "running"
    /\ last = "on_clipboard_change"
    /\ Len(items) = 2
    /\ \E i \in 1..Len(items) :
          /\ items[i].index \in prior
          /\ items[i].index \in issued
          /\ items[i] \notin Range(snapshot)

MalformedData(f) ==
    f.exists /\ (~f.parsable \/ \E k \in 1..Len(f.data) : from_dict_raises(f.data[k]))

\* C10. Malformed persisted data is not fatal: a load of a file that cannot
\* be parsed, or that holds a malformed record, ends with the program
\* running on an empty store with the counter at 0.
C10_MalformedNotFatal ==
    (last = "load" /\ MalformedData(file))
        => (phase = "running" /\ items = <<>> /\ counter = 0)

----------------------------------------------------------------------------
\* The payloads the store holds.
Payloads(its) == {its[i].data : i \in 1..Len(its)}

\* A clipboard change was handled while capture was on.
Handled == last' = "on_clipboard_change" /\ ~is_paused

\* C11 as stated. Classifier precedence: every clipboard change that carries
\* an image is classified as an image (the store then holds an image item
\* with that picture and nothing else was added), also when the same change
\* carries a text, empty or not.
C11_ImageFirst ==
    [][(Handled /\ clipboard'.hasImage)
          => /\ \E i \in 1..Len(items') :
                   /\ items'[i].data_type = "image"
                   /\ items'[i].data = Pixmap(clipboard'.image)
             /\ \A x \in NewItems(items, items') : x.data_type = "image"]_vars

\* C11 amended. Classifier precedence: the text representation comes first.
\* A change that carries a text representation, empty or not, never adds an
\* image item, whatever image it carries too; a change that carries an image
\* and no text representation is classified as an image.
C11_TextFirst ==
    [][Handled
          => /\ clipboard'.hasText
                => \A x \in NewItems(items, items') : x.data_type # "image"
             /\ (~clipboard'.hasText /\ clipboard'.hasImage)
                => /\ \E i \in 1..Len(items') :
                         /\ items'[i].data_type = "image"
                         /\ items'[i].data = Pixmap(clipboard'.image)
                   /\ \A x \in NewItems(items, items') : x.data_type = "image"]_vars

\* The clipboard took the text a together with a picture: the last item
\* added is the text a and the store holds no image.
C11_Witness ==
    /\ last = "on_clipboard_change"
    /\ ~is_paused
    /\ clipboard.hasText /\ clipboard.text = TextA /\ clipboard.hasImage
    /\ NoImages(items)
    /\ \E i \in 1..Len(items) :
          /\ items[i].data = Str(TextA)
          /\ items[i].data_type = "text"
          /\ items[i].index = counter - 1

\* The path a file URI stands for.
PathOfFileUri(text) ==
    CASE text = TextFileUrl  -> <<"/", "f">>
      [] text = TextFileHost -> <<"/", "/", "h", "/", "f">>
      [] text = TextFileBare -> <<>>

\* The kind and the payload the classification rules give a non-empty text.
ExpectedItem(text) ==
    IF StartsWith(text, HttpPrefix) \/ StartsWith(text, HttpsPrefix)
    THEN [data_type |-> "url", data |-> Str(text)]
    ELSE IF StartsWith(text, FilePrefix)
    THEN [data_type |-> "file", data |-> Str(PathOfFileUri(text))]
    ELSE IF StartsWith(text, <<"/">>)
    THEN [data_type |-> "file", data |-> Str(text)]
    ELSE [data_type |-> "text", data |-> Str(text)]

\* C12. Text classification: a non-empty text becomes a url when it starts
\* with http:// or https://, a file with the path of the URI when it starts
\* with file://, a file with the text itself when it starts with /, a text
\* otherwise: after the change the store holds an item of that kind with that
\* payload, and the only item that can be new is that one, with the counter
\* as its id. An empty text changes neither the store nor the counter.
C12_TextClassification ==
    [][(Handled /\ clipboard'.hasText)
          => IF clipboard'.text = <<>>
             THEN UNCHANGED <<items, counter, list_widget>>
             ELSE LET e == ExpectedItem(clipboard'.text)
                  IN  /\ \E i \in 1..Len(items') :
                            /\ items'[i].data_type = e.data_type
                            /\ items'[i].data = e.data
                      /\ NewItems(items, items') \subseteq
                            {[data_type |-> e.data_type, data |-> e.data,
                              favorite |-> FALSE, index |-> counter]}
                      /\ counter' = counter + Cardinality(NewItems(items, items'))]_vars

\* The text file://h/f was classified last: the newest item is the file //h/f.
C12_Witness ==
    /\ last = "on_clipboard_change"
    /\ ~is_paused
    /\ clipboard = MimeText(TextFileHost)
    /\ \E i \in 1..Len(items) :
          /\ items[i].data = Str(<<"/", "/", "h", "/", "f">>)
          /\ items[i].data_type = "file"
          /\ items[i].index = counter - 1

\* C13. Pause state machine: is_paused is false when the program starts,
\* only toggle_pause changes it, every toggle_pause flips it (so two
\* toggles in a row restore it), and no toggle_pause changes the store, the
\* rows or the counter.
C13_PauseMachine ==
    /\ [](last = "init" => ~is_paused)
    /\ [][is_paused' # is_paused => last' = "toggle_pause"]_vars
    /\ [][last' = "toggle_pause"
             => /\ is_paused' = ~is_paused
                /\ UNCHANGED <<items, counter, list_widget>>]_vars

\* A toggle has just switched capture back on, with items in the store.
C13_Witness ==
    /\ last = "toggle_pause"
    /\ ~is_paused
    /\ items # <<>>

\* The payloads a clipboard change offers, by the representation the
\* classifier reads: the text, else the picture, else the local paths.
OfferedPayloads(m) ==
    IF m.hasText
    THEN IF m.text = <<>> THEN {} ELSE {ExpectedItem(m.text).data}
    ELSE IF m.hasImage
    THEN {Pixmap(m.image)}
    ELSE {Str(m.urls[k].path) :
             k \in {j \in 1..Len(m.urls) : m.urls[j].scheme = "file"}}

\* C14. Duplicate ingest is a no-op: a clipboard change all of whose
\* payloads the store already holds leaves the items, their favorite flags,
\* their order and the rows unchanged and gives out no id.
C14_DuplicateNoOp ==
    [][(Handled
          /\ OfferedPayloads(clipboard') # {}
          /\ OfferedPayloads(clipboard') \subseteq Payloads(items))
          => UNCHANGED <<items, counter, list_widget, issued>>]_vars

\* The picture the store holds as item 0 came again after item 1 was added:
\* two items, ids 0 and 1, and the counter still 2.
C14_Witness ==
    /\ last = "on_clipboard_change"
    /\ ~is_paused
    /\ clipboard = MimeImage
    /\ counter = 2
    /\ Len(items) = 2
    /\ \E i \in 1..2 : items[i].data = Pixmap(Image1) /\ items[i].index = 0

\* C15. Export writes to a unique file and leaves the store alone: any two
\* exports, of the same item or of different items, wrote to different
\* paths, and no export changes the store, the rows or the counter.
C15_UniqueExport ==
    /\ [](\A i, j \in 1..Len(exports) :
             i # j => exports[i].path # exports[j].path)
    /\ [][exports' # exports => UNCHANGED <<items, counter, list_widget>>]_vars

\* A favorite or a delete is asked for through a menu whose row is gone.
StaleRequest ==
    /\ modal.kind = "menu"
    /\ ~modal.alive
    /\ modal' = NoModal
    /\ last' \notin {"menu_dismissed", "save_item_to_file"}

\* C16. ItemNotFound is a recoverable value: a favorite or a delete asked
\* for on a row that no longer exists leaves the store and the counter
\* unchanged and ends in an ItemNotFound outcome, never in an exception that
\* nothing handles.
C16_ItemNotFound ==
    [][StaleRequest
          => /\ UNCHANGED <<items, counter>>
             /\ last' \in {"delete_item: ItemNotFound",
                            "toggle_favorite_item: ItemNotFound"}]_vars

\* C17. Serialized operations: from the moment the confirmation of
\* delete-all or the context menu of an item opens until the answer or the
\* chosen action is applied, no step changes the store, the rows or the
\* counter, so that the action applies to the item and the row it was
\* started on.
C17_Serialized ==
    [][modal # NoModal
          => \/ modal' = NoModal
             \/ UNCHANGED <<items, list_widget, counter>>]_vars

\* The local paths of a URI list that are new to the store, each once, in
\* the order of the list.
RECURSIVE NewLocalPaths(_, _)
NewLocalPaths(urls, seen) ==
    IF urls = <<>> THEN <<>>
    ELSE LET u == Head(urls)
         IN  IF u.scheme = "file" /\ Str(u.path) \notin seen
             THEN <<u.path>> \o NewLocalPaths(Tail(urls), seen \cup {Str(u.path)})
             ELSE NewLocalPaths(Tail(urls), seen)

C19_PauseGatesAll ==
    [][is_paused
          => /\ NewItems(items, items') = {}
             /\ counter' <= counter]_vars

\* C19 amended. Pause gates the clipboard only: while is_paused holds, the
\* only step that adds an item or advances the counter is a drop onto the
\* window, which is classified and stored as when capture is on.
C19_PauseGatesClipboardOnly ==
    [][(is_paused /\ (NewItems(items, items') # {} \/ counter' > counter))
          => /\ last' = "dropEvent"
             /\ \E m \in Mimes :
                   /\ items' = process_mime_data(m, St(items, counter)).items
                   /\ counter' = process_mime_data(m, St(items, counter)).counter]_vars

\* Paused, with no clipboard change ever handled and nothing loaded, a drop
\* was handled last and the store holds an item.
C19_Witness ==
    /\ is_paused
    /\ last = "dropEvent"
    /\ clipboard = EmptyMime
    /\ file = AbsentFile
    /\ Len(items) = 1
    /\ items[1].data = Str(TextA)
    /\ counter = 1

\* C20. Activation does not feed back: when an item is activated while
\* capture is on, its payload goes to the clipboard, the clipboard change
\* that follows is handled, and the store, the rows and the counter are as
\* before; and what the text classifier makes of any stored text payload is
\* a payload the store holds.
C20_NoFeedback ==
    /\ [][(last' = "on_item_clicked" /\ ~is_paused)
             => UNCHANGED <<items, counter, list_widget, issued>>]_vars
    /\ [](\A i \in 1..Len(items) :
             (items[i].data.py = "str" /\ items[i].data.v # <<>>)
                => ClassifyText(items[i].data.v).data \in Payloads(items))

\* The file item //h/f, which came from the text file://h/f, was activated:
\* //h/f is on the clipboard and the store has that one item.
C20_Witness ==
    /\ last = "on_item_clicked"
    /\ ~is_paused
    /\ clipboard = MimeText(<<"/", "/", "h", "/", "f">>)
    /\ Len(items) = 1
    /\ items[1].data = Str(<<"/", "/", "h", "/", "f">>)
    /\ counter = 1

====
